---- MODULE Spec2Model ----
(***************************************************************************)
(* Model of make4ht-content-server.js: the local content server (path      *)
(* sandbox, CSS collection, transform, asset endpoint) and the bookmarklet *)
(* it serves (editor lookup, image classification, the three-phase Canvas  *)
(* upload, the per-image upload loop and the hand-over to the editor).     *)
(*                                                                         *)
(* Text is modelled as sequences of one-character strings, so that the     *)
(* regular expressions and prefix tests of the source are computed.        *)
(*                                                                         *)
(* Specifications: Spec and SpecLive (a bookmarklet run, the latter with   *)
(* every awaited call settling), SpecServer (GET /api/content and GET      *)
(* /api/asset), and the pure functions on their own: SpecPath              *)
(* (safeResolveUnderRoot), SpecCleanup (removeEmptyTheoremParagraphs),     *)
(* SpecNames (upload filenames), SpecUrl (pickUrl).                        *)
(***************************************************************************)
EXTENDS Integers, Sequences, FiniteSets, TLC

VARIABLES
  \* ---- bookmarklet run (client) ----
  pc,        \* position of the bookmarklet's main async function
  tinymce,   \* the host page's window.tinymce as getEditor sees it
  mode,      \* result of pickMode
  content,   \* content.bodyHtml: the src attribute of each <img>, in document order
  imgs,      \* uploadImagesViaCanvasAPI: positions of the candidate images
  idx,       \* index into imgs of the image the for loop is at
  docSrc,    \* current src attribute of each <img> of the parsed doc
  result,    \* per image: "none", "ok" (src rewritten) or "failed" (caught)
  converted, \* the converted counter
  inflight,  \* requests awaiting their response
  log,       \* requests and responses of the image the loop is at
  last,      \* requests and responses of the image that finished most recently
  upState,   \* "notcalled", "running", "returned", "threw"
  ret,       \* value returned by uploadImagesViaCanvasAPI
  edCalls,   \* calls of ed.setContent / ed.insertContent, in order
  alerts,    \* alert() messages shown, in order
  \* ---- path sandbox ----
  rel,       \* argument of safeResolveUnderRoot
  resolved,  \* its outcome
  \* ---- server: one request ----
  spc,        \* position of the request handler
  sreq,       \* the request: kind, its query parameters, the resolved path
  htmlDir,    \* inlineCssAndImages: path.dirname(htmlAbs)
  srcDoc,     \* the document as first parsed
  dom,        \* the parsed document, its elements in document order
  cssNodes,   \* ids of the nodes of Array.from(querySelectorAll(...))
  cssIdx,     \* index into cssNodes of the node the loop is at
  combinedCss,\* the CSS text collected so far
  reads,      \* paths handed to fs.readFile
  resp,       \* the response sent
  \* ---- structural cleanup ----
  tree,         \* the document tree removeEmptyTheoremParagraphs is given
  hasInnerText, \* whether the DOM implements element.innerText
  runs,         \* the tree after each successive run of the cleanup
  \* ---- upload filenames of one run ----
  srcs,      \* the trimmed src of each candidate image, in loop order
  clock,     \* what Date.now() returns
  names,     \* per candidate handled so far: the filename derived for it
  \* ---- URL extraction ----
  fileJson,  \* the final file record pickUrl is given
  pickedUrl  \* what pickUrl returned

clientVars == <<pc, tinymce, mode, content, imgs, idx, docSrc, result, converted,
                inflight, log, last, upState, ret, edCalls, alerts>>
pathVars == <<rel, resolved>>
serverVars == <<spc, sreq, htmlDir, srcDoc, dom, cssNodes, cssIdx, combinedCss, reads, resp>>
cleanupVars == <<tree, hasInnerText, runs>>
namesVars == <<srcs, clock, names>>
urlVars == <<fileJson, pickedUrl>>
vars == <<clientVars, pathVars, serverVars, cleanupVars, namesVars, urlVars>>

(***************************************************************************)
(* Bounds                                                                  *)
(***************************************************************************)
MaxImgs == 3

(***************************************************************************)
(* Text helpers                                                            *)
(***************************************************************************)
UpperChars == <<"A","B","C","D","E","F","G","H","I","J","K","L","M",
                "N","O","P","Q","R","S","T","U","V","W","X","Y","Z">>
LowerChars == <<"a","b","c","d","e","f","g","h","i","j","k","l","m",
                "n","o","p","q","r","s","t","u","v","w","x","y","z">>

toLowerChar(c) ==
  IF \E k \in DOMAIN UpperChars : UpperChars[k] = c
    THEN LowerChars[CHOOSE k \in DOMAIN UpperChars : UpperChars[k] = c]
    ELSE c

toLowerCase(s) == [k \in DOMAIN s |-> toLowerChar(s[k])]

isSpace(c) == c \in {" ", "\t", "\n"}

RECURSIVE trimStart(_)
trimStart(s) == IF s # <<>> /\ isSpace(Head(s)) THEN trimStart(Tail(s)) ELSE s

RECURSIVE trimEnd(_)
trimEnd(s) ==
  IF s # <<>> /\ isSpace(s[Len(s)]) THEN trimEnd(SubSeq(s, 1, Len(s) - 1)) ELSE s

trim(s) == trimEnd(trimStart(s))

startsWith(s, p) == Len(s) >= Len(p) /\ SubSeq(s, 1, Len(p)) = p

(***************************************************************************)
(* Server: paths (node:path, POSIX)                                        *)
(***************************************************************************)
sep == "/"

\* ROOT = path.resolve(process.argv[2] || "."): absolute and normalized.
ROOT == <<"/","r","/","a","b">>

endsWith(s, c) == s # <<>> /\ s[Len(s)] = c

\* The text split at every "/" (empty pieces kept).
RECURSIVE splitFrom(_, _, _)
splitFrom(s, k, piece) ==
  IF k > Len(s) THEN <<piece>>
  ELSE IF s[k] = sep THEN <<piece>> \o splitFrom(s, k + 1, <<>>)
  ELSE splitFrom(s, k + 1, Append(piece, s[k]))

split(s) == splitFrom(s, 1, <<>>)

\* Normalization of an absolute path's pieces: "" and "." are dropped and
\* ".." removes the piece before it (nothing above "/").
RECURSIVE normalizePieces(_, _)
normalizePieces(pieces, stack) ==
  IF pieces = <<>> THEN stack
  ELSE LET h == Head(pieces)
       IN IF h = <<>> \/ h = <<".">> THEN normalizePieces(Tail(pieces), stack)
          ELSE IF h = <<".", ".">>
            THEN normalizePieces(Tail(pieces),
                   IF stack = <<>> THEN stack ELSE SubSeq(stack, 1, Len(stack) - 1))
          ELSE normalizePieces(Tail(pieces), Append(stack, h))

RECURSIVE joinPieces(_)
joinPieces(pieces) ==
  IF pieces = <<>> THEN <<>> ELSE <<sep>> \o Head(pieces) \o joinPieces(Tail(pieces))

absolutePath(pieces) == IF pieces = <<>> THEN <<sep>> ELSE joinPieces(pieces)

\* path.resolve(base, p) for an absolute base: p replaces base when it is
\* absolute; the result is normalized and has no trailing separator.
pathResolve(base, p) ==
  IF p # <<>> /\ p[1] = sep
    THEN absolutePath(normalizePieces(split(p), <<>>))
    ELSE absolutePath(normalizePieces(split(base \o <<sep>> \o p), <<>>))

\* path.dirname of a normalized absolute path.
pathDirname(p) ==
  LET pieces == normalizePieces(split(p), <<>>)
  IN IF pieces = <<>> THEN <<sep>>
     ELSE absolutePath(SubSeq(pieces, 1, Len(pieces) - 1))

underRoot_noSeparator(abs) == startsWith(abs, ROOT) \/ abs = ROOT

\* The containment test of safeResolveUnderRoot and of GET /api/asset.
underRoot(abs) ==
  LET normRoot == IF endsWith(ROOT, sep) THEN ROOT ELSE ROOT \o <<sep>>
  IN ~(~startsWith(abs \o <<sep>>, normRoot) /\ abs # ROOT)

Thrown == <<"Invalid path">>

\* safeResolveUnderRoot: the resolved path, or the throw.
safeResolveUnderRoot(r) ==
  LET abs == pathResolve(ROOT, r)
  IN IF ~underRoot(abs) THEN [ok |-> FALSE, path |-> Thrown]
     ELSE [ok |-> TRUE, path |-> abs]

(***************************************************************************)
(* Bookmarklet: pure helpers                                               *)
(***************************************************************************)

\* window.tinymce as the page presents it: t = the global exists, active =
\* t.activeEditor is set, hasIsHidden = the editor has an isHidden method,
\* hidden = what that method returns.
Editors ==
  { [t |-> FALSE, active |-> FALSE, hasIsHidden |-> FALSE, hidden |-> FALSE],
    [t |-> TRUE,  active |-> FALSE, hasIsHidden |-> FALSE, hidden |-> FALSE],
    [t |-> TRUE,  active |-> TRUE,  hasIsHidden |-> TRUE,  hidden |-> TRUE],
    [t |-> TRUE,  active |-> TRUE,  hasIsHidden |-> TRUE,  hidden |-> FALSE],
    [t |-> TRUE,  active |-> TRUE,  hasIsHidden |-> FALSE, hidden |-> FALSE] }

getEditor_ignoresHidden(w) == IF ~w.t \/ ~w.active THEN "null" ELSE "ed"

\* getEditor: "ed" when an editor is returned, "null" otherwise.
getEditor(w) ==
  IF ~w.t \/ ~w.active THEN "null"
  ELSE IF w.hasIsHidden /\ w.hidden THEN "null"
  ELSE "ed"

\* /^https?:\/\//i
isHttp(u) ==
  \/ startsWith(toLowerCase(u), <<"h","t","t","p",":","/","/">>)
  \/ startsWith(toLowerCase(u), <<"h","t","t","p","s",":","/","/">>)

isSpecial_noBlob(u) == startsWith(toLowerCase(u), <<"d","a","t","a",":">>)

\* /^(data:|blob:)/i
isSpecial(u) ==
  \/ startsWith(toLowerCase(u), <<"d","a","t","a",":">>)
  \/ startsWith(toLowerCase(u), <<"b","l","o","b",":">>)

isLocalish(u) == u # <<>> /\ ~isHttp(u) /\ ~isSpecial(u)

\* What prompt() can return to pickMode; <<>> stands for null (cancelled) and "".
ModeInputs ==
  { <<>>, <<"i">>, <<"x">>, <<"r","e","p","l","a","c","e">>,
    <<"i","n","s","e","r","t">>, <<" ","I","n","s","e","r","t"," ">> }

pickMode(v) ==
  LET w == toLowerCase(trim(v))
  IN IF w = <<"i","n","s","e","r","t">> \/ w = <<"i">> THEN "insert" ELSE "replace"

\* Field values of a file record: a field is absent, the empty string, or a URL.
Absent == <<"undefined">>
HostedU == <<"h","t","t","p","s",":","/","/","c","/","u">>
HostedD == <<"h","t","t","p","s",":","/","/","c","/","d">>
HostedP == <<"h","t","t","p","s",":","/","/","c","/","p">>

FileJson(u, d, p) == [url |-> u, download_url |-> d, preview_url |-> p]

\* The empty record {}; also what { raw: text } and null look like to pickUrl.
EmptyJson == FileJson(Absent, Absent, Absent)

\* Final file records the remote service answers with in a run.
FileJsons ==
  { EmptyJson,
    FileJson(<<>>, Absent, Absent),
    FileJson(HostedU, HostedD, HostedP),
    FileJson(<<>>, Absent, HostedP) }

NoUrl == <<"null">>

truthy(v) == v # Absent /\ v # <<>>

pickUrl_previewFirst(rec) ==
  IF truthy(rec.preview_url) THEN rec.preview_url
  ELSE IF truthy(rec.download_url) THEN rec.download_url
  ELSE IF truthy(rec.url) THEN rec.url
  ELSE NoUrl

pickUrl(rec) ==
  IF truthy(rec.url) THEN rec.url
  ELSE IF truthy(rec.download_url) THEN rec.download_url
  ELSE IF truthy(rec.preview_url) THEN rec.preview_url
  ELSE NoUrl

uploadImageToCanvas_noCheck(rec) == [threw |-> FALSE, url |-> pickUrl(rec)]

\* uploadImageToCanvas after uploadAndFinalize returned the record: it throws
\* "Upload succeeded but no usable url found." when pickUrl gives null, and
\* returns the URL otherwise.
uploadImageToCanvas(rec) ==
  LET url == pickUrl(rec)
  IN IF url = NoUrl THEN [threw |-> TRUE, url |-> NoUrl]
     ELSE [threw |-> FALSE, url |-> url]

uploadAndFinalize_ignoresStatus(st, loc) == IF loc THEN "finalize" ELSE "return"

\* uploadAndFinalize once the binary-upload response is in: with a Location
\* header it goes on to finalize (up.ok is not looked at); without one it
\* throws on a non-ok status and otherwise returns the response's body.
uploadAndFinalize(st, loc) ==
  IF loc THEN "finalize"
  ELSE IF st # "ok" THEN "throw"
  ELSE "return"

(***************************************************************************)
(* Bookmarklet: image sources                                              *)
(***************************************************************************)
SrcA      == <<"a",".","p","n","g">>
SrcB      == <<"d","/","a",".","p","n","g">>
SrcRemote == <<"h","t","t","p",":","/","/","h","/","a",".","p","n","g">>
SrcData   == <<"d","a","t","a",":","x">>

\* src attributes the fragments of a run are built from: a local reference,
\* a remote one and an embedded one.
RunSrcs == {SrcA, SrcRemote, SrcData}

\* content.bodyHtml, as the src attribute of each of its <img> elements.
Fragments == UNION { [1..n -> RunSrcs] : n \in 0..MaxImgs }

\* Positions of the images the filter of uploadImagesViaCanvasAPI keeps.
RECURSIVE candidatesFrom(_, _)
candidatesFrom(frag, k) ==
  IF k > Len(frag) THEN <<>>
  ELSE IF isLocalish(trim(frag[k])) THEN <<k>> \o candidatesFrom(frag, k + 1)
  ELSE candidatesFrom(frag, k + 1)

candidates(frag) == candidatesFrom(frag, 1)

(***************************************************************************)
(* Bookmarklet: requests, responses and the per-image log                  *)
(***************************************************************************)
Req(k, p) == [k |-> k, img |-> p]

\* up.headers.get("Location") of an answer without the header.
NoLocation == <<"null">>

\* Values of the Location header of a binary-upload answer.
LocA == <<"h","t","t","p","s",":","/","/","c","/","1">>
LocB == <<"h","t","t","p","s",":","/","/","c","/","2">>
Locations == {LocA, LocB}

\* preData.upload_url, where the binary upload is sent.
UploadUrl == <<"h","t","t","p","s",":","/","/","s","/","u">>

\* One entry of an image's log: a request issued (t = "req") or a response
\* received (t = "resp") with its status, whether it carried a Location
\* header, and the record parsed from its body; to is the value of the
\* Location header of a binary-upload answer that has one, and the URL a
\* finalize request is sent to.
Ev(t, k, p, st, loc, rec) ==
  [t |-> t, k |-> k, img |-> p, st |-> st, loc |-> loc, rec |-> rec, to |-> NoLocation]

ReqEv(k, p) == Ev("req", k, p, "-", FALSE, EmptyJson)
RespEv(k, p, st, loc, rec) == Ev("resp", k, p, st, loc, rec)

\* "ok" is a 2xx status, "bad" any other status, "neterr" a rejected fetch.
Statuses == {"ok", "bad", "neterr"}

(***************************************************************************)
(* Bookmarklet: the run                                                    *)
(***************************************************************************)
NoRet == [updatedHtml |-> <<>>, converted |-> -1, total |-> -1]

CatchImage_rethrow == "rethrow"

\* catch(e){ console.warn(...) } inside the for loop: the loop goes on.
CatchImage == "continue"

loopRequests_allAtOnce(cands, k) ==
  IF k = 1 THEN { Req("asset", cands[j]) : j \in DOMAIN cands } ELSE {}

\* The request the for loop issues when it arrives at candidate k: the asset
\* fetch of that image, awaited before anything else happens.
loopRequests(cands, k) == { Req("asset", cands[k]) }

handedContent_original(bodyHtml, up) == bodyHtml

\* The html main passes to ed.insertContent / ed.setContent.
handedContent(bodyHtml, up) == up.updatedHtml

MainCatch_silent ==
  /\ alerts' = alerts
  /\ pc' = "failed"

\* main's catch: console.error and one alert('Canvas upload failed: ...').
MainCatch ==
  /\ alerts' = Append(alerts, [kind |-> "failed", converted |-> 0, total |-> 0])
  /\ pc' = "failed"

\* main after uploadImagesViaCanvasAPI returned up: focus, one transact that
\* inserts or replaces, nodeChanged, setDirty, alert('Upload complete...').
MainInsert(bodyHtml, up) ==
  /\ edCalls' = Append(edCalls,
        [op   |-> IF mode = "insert" THEN "insertContent" ELSE "setContent",
         html |-> handedContent(bodyHtml, up)])
  /\ alerts' = Append(alerts,
        [kind |-> "complete", converted |-> up.converted, total |-> up.total])
  /\ pc' = "done"

\* main up to the first await: pickFile calls fetchJson(BASE + '/api/files').
PickFile ==
  /\ pc = "start"
  /\ inflight' = inflight \cup {Req("files", 0)}
  /\ pc' = "files"
  /\ UNCHANGED <<tinymce, mode, content, imgs, idx, docSrc, result, converted,
                 log, last, upState, ret, edCalls, alerts>>

\* The file list arrives: the rest of pickFile, pickMode, pickFolder,
\* getCourseId, then fetchJson(BASE + '/api/content?file=...').
FilesResponse ==
  /\ pc = "files"
  /\ Req("files", 0) \in inflight
  /\ \E st \in Statuses, nfiles \in 0..1, choice \in BOOLEAN,
        v \in ModeInputs, course \in BOOLEAN :
       LET picked == st = "ok" /\ nfiles > 0 /\ choice
       IN /\ mode' = IF picked THEN pickMode(v) ELSE mode
          /\ IF picked /\ course
               THEN /\ inflight' = (inflight \ {Req("files", 0)}) \cup {Req("content", 0)}
                    /\ pc' = "content"
                    /\ UNCHANGED alerts
               ELSE /\ inflight' = inflight \ {Req("files", 0)}
                    /\ MainCatch
  /\ UNCHANGED <<tinymce, content, imgs, idx, docSrc, result, converted,
                 log, last, upState, ret, edCalls>>

\* The transformed content arrives: getEditor, then uploadImagesViaCanvasAPI
\* up to its first await (or to its return when there is no candidate, and
\* then main to its end).
ContentResponse ==
  /\ pc = "content"
  /\ Req("content", 0) \in inflight
  /\ \E st \in Statuses, frag \in Fragments :
       IF st # "ok"
         THEN /\ inflight' = inflight \ {Req("content", 0)}
              /\ MainCatch
              /\ UNCHANGED <<content, imgs, idx, docSrc, result, converted,
                             log, last, upState, ret, edCalls>>
       ELSE IF getEditor(tinymce) = "null"
         THEN /\ inflight' = inflight \ {Req("content", 0)}
              /\ content' = frag
              /\ MainCatch
              /\ UNCHANGED <<imgs, idx, docSrc, result, converted,
                             log, last, upState, ret, edCalls>>
       ELSE LET cands == candidates(frag)
            IN /\ content' = frag
               /\ imgs' = cands
               /\ docSrc' = frag
               /\ result' = [k \in DOMAIN frag |-> "none"]
               /\ converted' = 0
               /\ IF cands = <<>>
                    THEN LET up == [updatedHtml |-> frag, converted |-> 0, total |-> 0]
                         IN /\ upState' = "returned"
                            /\ ret' = up
                            /\ MainInsert(frag, up)
                            /\ inflight' = inflight \ {Req("content", 0)}
                            /\ UNCHANGED <<idx, log, last>>
                    ELSE /\ upState' = "running"
                         /\ idx' = 1
                         /\ inflight' = (inflight \ {Req("content", 0)})
                                          \cup loopRequests(cands, 1)
                         /\ log' = <<ReqEv("asset", cands[1])>>
                         /\ pc' = "upload"
                         /\ UNCHANGED <<ret, edCalls, alerts, last>>
  /\ UNCHANGED <<tinymce, mode>>

\* The image the for loop is at.
cur == imgs[idx]

countConverted_always(ok, c) == c + 1

\* converted++ is reached only when the upload of the image returned a URL.
countConverted(ok, c) == IF ok THEN c + 1 ELSE c

\* The body of the for loop is over for image cur (ok: its src is rewritten to
\* url and converted is incremented; otherwise the catch ran): the loop goes to
\* the next candidate, or the function returns and main runs to its end.
\* evs is the finished image's log, req the request whose response ended it.
ImageDone(ok, url, evs, req) ==
  LET src2  == IF ok THEN [docSrc EXCEPT ![cur] = url] ELSE docSrc
      conv2 == countConverted(ok, converted)
      up    == [updatedHtml |-> src2, converted |-> conv2, total |-> Len(imgs)]
  IN /\ docSrc' = src2
     /\ converted' = conv2
     /\ result' = [result EXCEPT ![cur] = IF ok THEN "ok" ELSE "failed"]
     /\ last' = evs
     /\ UNCHANGED <<tinymce, mode, content, imgs>>
     /\ IF ~ok /\ CatchImage = "rethrow"
          THEN /\ upState' = "threw"
               /\ MainCatch
               /\ inflight' = inflight \ {req}
               /\ log' = <<>>
               /\ UNCHANGED <<idx, ret, edCalls>>
        ELSE IF idx < Len(imgs)
          THEN /\ idx' = idx + 1
               /\ inflight' = (inflight \ {req}) \cup loopRequests(imgs, idx + 1)
               /\ log' = <<ReqEv("asset", imgs[idx + 1])>>
               /\ UNCHANGED <<pc, upState, ret, edCalls, alerts>>
        ELSE /\ upState' = "returned"
             /\ ret' = up
             /\ MainInsert(content, up)
             /\ inflight' = inflight \ {req}
             /\ log' = <<>>
             /\ UNCHANGED idx

\* The loop body awaits one more request for image cur; to is where a
\* finalize request is sent.
ImageNext(evs, req, nextKind, to) ==
  /\ inflight' = (inflight \ {req}) \cup {Req(nextKind, cur)}
  /\ log' = evs \o <<[ReqEv(nextKind, cur) EXCEPT !.to = to]>>
  /\ UNCHANGED <<pc, tinymce, mode, content, imgs, idx, docSrc, result, converted,
                 last, upState, ret, edCalls, alerts>>

\* fetch(assetUrl) and r.blob() settle; on success the filename is derived and
\* uploadImageToCanvas calls preflightCourseFileUpload, which POSTs.
AssetResponse ==
  /\ pc = "upload"
  /\ Req("asset", cur) \in inflight
  /\ \E st \in Statuses :
       LET evs == log \o <<RespEv("asset", cur, st, FALSE, EmptyJson)>>
       IN IF st = "ok"
            THEN ImageNext(evs, Req("asset", cur), "preflight", NoLocation)
            ELSE ImageDone(FALSE, NoUrl, evs, Req("asset", cur))

\* Statuses of the preflight: "nogrant" is a 2xx answer whose body has no
\* upload_params (Object.entries throws on it).
PreStatuses == Statuses \cup {"nogrant"}

preflightCourseFileUpload_noThrow(st) == "upload"

\* What follows the preflight answer: preflightCourseFileUpload throws on a
\* non-ok status (and a rejected fetch throws by itself), Object.entries in
\* uploadAndFinalize throws on a grant without upload_params; otherwise
\* uploadAndFinalize goes on to the binary upload.
preflightCourseFileUpload(st) == IF st = "ok" THEN "upload" ELSE "throw"

\* The preflight POST settles; on success uploadAndFinalize POSTs the form.
PreflightResponse ==
  /\ pc = "upload"
  /\ Req("preflight", cur) \in inflight
  /\ \E st \in PreStatuses :
       LET evs == log \o <<RespEv("preflight", cur, st, FALSE, EmptyJson)>>
       IN IF preflightCourseFileUpload(st) = "upload"
            THEN ImageNext(evs, Req("preflight", cur), "binary", NoLocation)
            ELSE ImageDone(FALSE, NoUrl, evs, Req("preflight", cur))

finalizeTarget_uploadUrl(loc) == UploadUrl

\* fetch(loc, ...): the finalize request goes to the Location header's value.
finalizeTarget(loc) == loc

\* The binary upload settles: finalize GET when there is a Location header,
\* otherwise the body is the file record (or the throw on a non-ok status).
BinaryResponse ==
  /\ pc = "upload"
  /\ Req("binary", cur) \in inflight
  /\ \E st \in Statuses, loc \in BOOLEAN :
       IF st = "neterr"
         THEN ImageDone(FALSE, NoUrl,
                        log \o <<RespEv("binary", cur, st, FALSE, EmptyJson)>>,
                        Req("binary", cur))
       ELSE IF uploadAndFinalize(st, loc) = "finalize"
         THEN \E where \in Locations :
                ImageNext(log \o <<[RespEv("binary", cur, st, loc, EmptyJson)
                                      EXCEPT !.to = where]>>,
                          Req("binary", cur), "finalize", finalizeTarget(where))
       ELSE IF uploadAndFinalize(st, loc) = "throw"
         THEN ImageDone(FALSE, NoUrl,
                        log \o <<RespEv("binary", cur, st, loc, EmptyJson)>>,
                        Req("binary", cur))
       ELSE \E rec \in FileJsons :
              LET r == uploadImageToCanvas(rec)
              IN ImageDone(~r.threw, r.url,
                           log \o <<RespEv("binary", cur, st, loc, rec)>>,
                           Req("binary", cur))

\* The finalize GET settles: throw on a non-ok status, else its body is the
\* file record.
FinalizeResponse ==
  /\ pc = "upload"
  /\ Req("finalize", cur) \in inflight
  /\ \E st \in Statuses :
       IF st # "ok"
         THEN ImageDone(FALSE, NoUrl,
                        log \o <<RespEv("finalize", cur, st, FALSE, EmptyJson)>>,
                        Req("finalize", cur))
       ELSE \E rec \in FileJsons :
              LET r == uploadImageToCanvas(rec)
              IN ImageDone(~r.threw, r.url,
                           log \o <<RespEv("finalize", cur, st, FALSE, rec)>>,
                           Req("finalize", cur))

ClientInit ==
  /\ pc = "start"
  /\ tinymce \in Editors
  /\ mode = "unset"
  /\ content = <<>>
  /\ imgs = <<>>
  /\ idx = 0
  /\ docSrc = <<>>
  /\ result = <<>>
  /\ converted = 0
  /\ inflight = {}
  /\ log = <<>>
  /\ last = <<>>
  /\ upState = "notcalled"
  /\ ret = NoRet
  /\ edCalls = <<>>
  /\ alerts = <<>>

\* The path sandbox takes no part in a bookmarklet run.
PathIdle == rel = <<>> /\ resolved = [ok |-> FALSE, path |-> <<>>]

\* No request is being served.
NoReq == [kind |-> "none", file |-> <<>>, path |-> <<>>, abs |-> <<>>]
NoResp == [status |-> 0, bodyHtml |-> <<>>, warnings |-> <<>>]

ServerIdle ==
  /\ spc = "off"
  /\ sreq = NoReq
  /\ htmlDir = <<>>
  /\ srcDoc = <<>>
  /\ dom = <<>>
  /\ cssNodes = <<>>
  /\ cssIdx = 0
  /\ combinedCss = <<>>
  /\ reads = {}
  /\ resp = NoResp

\* The cleanup is not run on its own.
CleanupIdle == tree = <<>> /\ hasInnerText = FALSE /\ runs = <<>>

\* No filename is derived on its own.
NamesIdle == srcs = <<>> /\ clock = 0 /\ names = <<>>

NotPicked == <<"not called">>

\* pickUrl is not called on its own.
UrlIdle == fileJson = EmptyJson /\ pickedUrl = NotPicked

Init == ClientInit /\ PathIdle /\ ServerIdle /\ CleanupIdle /\ NamesIdle /\ UrlIdle

Next ==
  \/ PickFile /\ UNCHANGED <<pathVars, serverVars, cleanupVars, namesVars, urlVars>>
  \/ FilesResponse /\ UNCHANGED <<pathVars, serverVars, cleanupVars, namesVars, urlVars>>
  \/ ContentResponse /\ UNCHANGED <<pathVars, serverVars, cleanupVars, namesVars, urlVars>>
  \/ AssetResponse /\ UNCHANGED <<pathVars, serverVars, cleanupVars, namesVars, urlVars>>
  \/ PreflightResponse /\ UNCHANGED <<pathVars, serverVars, cleanupVars, namesVars, urlVars>>
  \/ BinaryResponse /\ UNCHANGED <<pathVars, serverVars, cleanupVars, namesVars, urlVars>>
  \/ FinalizeResponse /\ UNCHANGED <<pathVars, serverVars, cleanupVars, namesVars, urlVars>>

Spec == Init /\ [][Next]_vars

\* The script runs once injected, and every fetch the run awaits settles,
\* with a response or with an error.
SpecLive == Init /\ [][Next]_vars /\ WF_vars(Next)

(***************************************************************************)
(* Helpers of the properties                                               *)
(***************************************************************************)
Range(f) == { f[k] : k \in DOMAIN f }

Events(l) == { l[k] : k \in DOMAIN l }

\* The image a non-empty log belongs to.
LogImg(l) == l[1].img

HostedUrls == {HostedU, HostedD, HostedP}

\* The record has at least one URL field holding a URL.
HasUsableUrl(rec) ==
  \/ rec.url \in HostedUrls
  \/ rec.download_url \in HostedUrls
  \/ rec.preview_url \in HostedUrls

\* The log ends with a successful answer that carries a record with a URL.
LogSucceeded(l) ==
  LET e == l[Len(l)]
  IN /\ e.t = "resp"
     /\ e.k \in {"binary", "finalize"}
     /\ e.st = "ok"
     /\ HasUsableUrl(e.rec)

\* Hand-classified src attributes: "local" is a non-empty reference that is
\* neither an absolute http/https URL nor a data: or blob: URI.
LabelledSrcs ==
  { [s |-> <<>>,                                     kind |-> "empty"],
    [s |-> <<" ">>,                                  kind |-> "empty"],
    [s |-> SrcA,                                     kind |-> "local"],
    [s |-> SrcB,                                     kind |-> "local"],
    [s |-> <<" ","a",".","p","n","g"," ">>,          kind |-> "local"],
    [s |-> <<"h","t","t","p">>,                      kind |-> "local"],
    [s |-> <<"h","t","t","p",":","a">>,              kind |-> "local"],
    [s |-> <<"b","l","o","b","s","/","a">>,          kind |-> "local"],
    [s |-> SrcRemote,                                kind |-> "remote"],
    [s |-> <<"h","t","t","p","s",":","/","/","h">>,  kind |-> "remote"],
    [s |-> <<"H","T","T","P","S",":","/","/","h">>,  kind |-> "remote"],
    [s |-> <<" ","h","t","t","p",":","/","/","h">>,  kind |-> "remote"],
    [s |-> HostedU,                                  kind |-> "remote"],
    [s |-> SrcData,                                  kind |-> "embedded"],
    [s |-> <<"D","a","t","a",":","x">>,              kind |-> "embedded"],
    [s |-> <<"b","l","o","b",":","x">>,              kind |-> "embedded"],
    [s |-> <<" ","B","L","O","B",":","x">>,          kind |-> "embedded"] }

LabelOf(s) == (CHOOSE e \in LabelledSrcs : e.s = s).kind

LocalPositions(frag) == { k \in DOMAIN frag : LabelOf(frag[k]) = "local" }

OkPositions == { k \in DOMAIN result : result[k] = "ok" }

(***************************************************************************)
(* Properties of the bookmarklet run                                       *)
(***************************************************************************)

\* C1: whatever fails for whichever images, uploadImagesViaCanvasAPI never
\* throws, goes on to every later image after a failed one, and returns
\* total = the number of local images and converted = the number of images
\* whose upload succeeded; a succeeded image's src is the hosted URL of its
\* record, a failed image's src is what it was.
C1_BatchSurvivesFailures ==
  /\ upState # "threw"
  /\ last # <<>> =>
       LET p == LogImg(last)
           e == last[Len(last)]
       IN IF LogSucceeded(last)
            THEN /\ result[p] = "ok"
                 /\ docSrc[p] \in {e.rec.url, e.rec.download_url, e.rec.preview_url}
                                    \cap HostedUrls
            ELSE /\ result[p] = "failed"
                 /\ docSrc[p] = content[p]
  /\ \A k \in DOMAIN result :
       /\ result[k] = "ok" => docSrc[k] \in HostedUrls
       /\ result[k] # "ok" => docSrc[k] = content[k]
  /\ upState = "running" =>
       /\ converted = Cardinality(OkPositions)
       /\ \A j \in 1..(idx - 1) : result[imgs[j]] \in {"ok", "failed"}
  /\ upState = "returned" =>
       /\ ret.total = Cardinality(LocalPositions(content))
       /\ ret.converted = Cardinality(OkPositions)
       /\ ret.updatedHtml = docSrc
       /\ \A k \in LocalPositions(content) : result[k] \in {"ok", "failed"}

\* C1 witness: a finished run over three local images of which the second
\* failed and the other two were uploaded: converted = 2 of total = 3.
C1_Witness ==
  /\ upState = "returned"
  /\ Len(imgs) = 3
  /\ result[imgs[1]] = "ok"
  /\ result[imgs[2]] = "failed"
  /\ result[imgs[3]] = "ok"
  /\ ret.converted = 2
  /\ ret.total = 3
  /\ pc = "done"

\* C2: uploads are sequential and in document order: at most one request is
\* outstanding, it belongs to the image the loop is at, every earlier
\* candidate has its terminal result and no later candidate has any.
C2_StrictlySequential ==
  /\ Cardinality(inflight) <= 1
  /\ \A j \in DOMAIN imgs : \A k \in DOMAIN imgs : j < k => imgs[j] < imgs[k]
  /\ \A r \in inflight :
       r.img # 0 =>
         /\ r.img = imgs[idx]
         /\ result[r.img] = "none"
         /\ \A j \in DOMAIN imgs :
              /\ j < idx => result[imgs[j]] \in {"ok", "failed"}
              /\ j > idx => result[imgs[j]] = "none"
  /\ \A e \in Events(log) : e.img = imgs[idx]

\* C2 witness: the second candidate's binary upload is outstanding.
C2_Witness ==
  /\ pc = "upload"
  /\ idx = 2
  /\ Len(imgs) = 3
  /\ inflight = {Req("binary", imgs[2])}

\* A response of the given kind with a non-success status is in the log.
BadStatusIn(l, kinds) ==
  \E e \in Events(l) : e.t = "resp" /\ e.k \in kinds /\ e.st = "bad"

\* C3 as claimed: a non-success status at the preflight, the binary upload or
\* the finalize step always fails the asset (no hosted URL, src not rewritten),
\* with or without a Location header on the binary-upload response.
C3_AnyBadStatusFails ==
  (last # <<>> /\ BadStatusIn(last, {"preflight", "binary", "finalize"})) =>
     /\ result[LogImg(last)] = "failed"
     /\ docSrc[LogImg(last)] = content[LogImg(last)]

\* C3 amended: a non-success status at the preflight or the finalize step
\* always fails the asset, and so does a non-success status at the binary
\* upload when its response carries no Location header.
C3_BadStatusFailsUnlessLocation ==
  (last # <<>> /\
     \/ BadStatusIn(last, {"preflight", "finalize"})
     \/ \E e \in Events(last) :
          e.t = "resp" /\ e.k = "binary" /\ e.st = "bad" /\ ~e.loc) =>
     /\ result[LogImg(last)] = "failed"
     /\ docSrc[LogImg(last)] = content[LogImg(last)]

\* C3 witness: a binary upload answered with a non-success status and no
\* Location header, and the asset failed.
C3_Witness ==
  /\ last # <<>>
  /\ \E e \in Events(last) : e.t = "resp" /\ e.k = "binary" /\ e.st = "bad" /\ ~e.loc
  /\ result[LogImg(last)] = "failed"

\* Every response in the log is a success.
AllResponsesOk(l) == \A e \in Events(l) : e.t = "resp" => e.st = "ok"

\* Number of requests of kind k in the log.
RequestCount(l, k) == Cardinality({ j \in DOMAIN l : l[j].t = "req" /\ l[j].k = k })

\* C4: when every remote call of an asset succeeds but the final record has
\* none of the URL fields, the asset fails like any upload failure: src
\* unchanged, converted not incremented, still counted in total, no request
\* repeated, and the loop goes on to the next image.
C4_NoUsableUrlIsFailure ==
  (last # <<>> /\ AllResponsesOk(last) /\ last[Len(last)].rec = EmptyJson) =>
     LET p == LogImg(last)
     IN /\ result[p] = "failed"
        /\ docSrc[p] = content[p]
        /\ upState = "running" => converted = Cardinality(OkPositions \ {p})
        /\ upState = "returned" =>
             /\ ret.converted = Cardinality(OkPositions \ {p})
             /\ ret.total = Cardinality(LocalPositions(content))
             /\ p \in LocalPositions(content)
        /\ \A k \in {"asset", "preflight", "binary", "finalize"} :
             RequestCount(last, k) <= 1
        /\ \A r \in inflight : r.img # p
        /\ upState \in {"running", "returned"}
        /\ p # imgs[Len(imgs)] => (pc = "upload" /\ imgs[idx] > p)

\* C4 witness: the finalize answer of the first of two candidates was a
\* success with an empty record, and the loop is at the second one.
C4_Witness ==
  /\ last # <<>>
  /\ AllResponsesOk(last)
  /\ last[Len(last)].k = "finalize"
  /\ last[Len(last)].rec = EmptyJson
  /\ result[LogImg(last)] = "failed"
  /\ pc = "upload"
  /\ idx = 2
  /\ inflight = {Req("asset", imgs[2])}

\* C5: content is handed to the editor at most once, only when every
\* candidate image has its terminal result and nothing is outstanding, and
\* what is handed over is the fragment uploadImagesViaCanvasAPI returned.
C5_HandOverAfterUploads ==
  /\ Len(edCalls) <= 1
  /\ edCalls # <<>> =>
       /\ upState = "returned"
       /\ inflight = {}
       /\ \A k \in LocalPositions(content) : result[k] \in {"ok", "failed"}
       /\ edCalls[1].html = ret.updatedHtml
       /\ edCalls[1].html = docSrc

\* C5 witness: content handed over with one image rewritten and one failed.
C5_Witness ==
  /\ Len(edCalls) = 1
  /\ ret.total = 2
  /\ ret.converted = 1
  /\ edCalls[1].html # content

\* The host editor is not available: no active editor, or it is hidden.
EditorUnavailable(w) == ~w.t \/ ~w.active \/ w.hidden

\* C6: with no editor available the run fails with a single message; nothing
\* is handed to the editor and no asset fetch or upload request is issued.
C6_NoEditorNoUpload ==
  EditorUnavailable(tinymce) =>
     /\ edCalls = <<>>
     /\ upState = "notcalled"
     /\ \A r \in inflight : r.k \in {"files", "content"}
     /\ log = <<>> /\ last = <<>>
     /\ pc \in {"start", "files", "content", "failed"}
     /\ Len(alerts) <= 1
     /\ pc = "failed" => (Len(alerts) = 1 /\ alerts[1].kind = "failed")

\* C6 witness: the content with a local image arrived, the editor was hidden,
\* and the run has failed.
C6_Witness ==
  /\ tinymce.active /\ tinymce.hidden
  /\ pc = "failed"
  /\ LocalPositions(content) # {}
  /\ Len(alerts) = 1

\* C7: an image is an upload candidate exactly when its src is a local
\* reference; remote and embedded references keep their src, cause no asset
\* fetch and no upload request, and are not counted in total.
C7_OnlyLocalCandidates ==
  /\ pc = "start" =>
       \A e \in LabelledSrcs : isLocalish(trim(e.s)) <=> (e.kind = "local")
  /\ upState # "notcalled" =>
       /\ Range(imgs) = LocalPositions(content)
       /\ \A k \in (DOMAIN content) \ LocalPositions(content) :
            /\ docSrc[k] = content[k]
            /\ result[k] = "none"
            /\ \A r \in inflight : r.img # k
            /\ \A e \in Events(log) \cup Events(last) : e.img # k
  /\ upState = "returned" =>
       /\ ret.total = Cardinality(LocalPositions(content))
       /\ \A k \in (DOMAIN content) \ LocalPositions(content) :
            ret.updatedHtml[k] = content[k]

\* C7 witness: a finished run over a remote, an embedded and a local image.
C7_Witness ==
  /\ upState = "returned"
  /\ \E a, b, c \in DOMAIN content :
       /\ LabelOf(content[a]) = "remote"
       /\ LabelOf(content[b]) = "embedded"
       /\ LabelOf(content[c]) = "local" /\ result[c] = "ok"
  /\ ret.total = 1

(***************************************************************************)
(* Path sandbox on its own: safeResolveUnderRoot applied to a path         *)
(***************************************************************************)
MaxSegs == 3

\* Names the request paths are built from: "ab" is ROOT's own last name and
\* "abc" a name that has it as a prefix.
SegPool == { <<".", ".">>, <<".">>, <<"s">>, <<"a","b">>, <<"a","b","c">>, <<"r">>, <<"f">> }

RECURSIVE joinRel(_)
joinRel(pieces) ==
  IF pieces = <<>> THEN <<>>
  ELSE IF Len(pieces) = 1 THEN Head(pieces)
  ELSE Head(pieces) \o <<sep>> \o joinRel(Tail(pieces))

\* Request paths: up to MaxSegs names joined by "/", relative or absolute.
RelInputs ==
  { joinRel(ps) : ps \in UNION { [1..n -> SegPool] : n \in 0..MaxSegs } }
  \cup { <<sep>> \o joinRel(ps) : ps \in UNION { [1..n -> SegPool] : n \in 0..MaxSegs } }

NotResolved == [ok |-> FALSE, path |-> <<>>]

\* No bookmarklet runs while the server side is looked at.
ClientIdle ==
  /\ pc = "off"
  /\ tinymce = [t |-> FALSE, active |-> FALSE, hasIsHidden |-> FALSE, hidden |-> FALSE]
  /\ mode = "unset"
  /\ content = <<>>
  /\ imgs = <<>>
  /\ idx = 0
  /\ docSrc = <<>>
  /\ result = <<>>
  /\ converted = 0
  /\ inflight = {}
  /\ log = <<>>
  /\ last = <<>>
  /\ upState = "notcalled"
  /\ ret = NoRet
  /\ edCalls = <<>>
  /\ alerts = <<>>

PathInit ==
  /\ rel \in RelInputs
  /\ resolved = NotResolved

\* One call of safeResolveUnderRoot(rel).
Resolve ==
  /\ resolved = NotResolved
  /\ resolved' = safeResolveUnderRoot(rel)
  /\ UNCHANGED rel

InitPath == PathInit /\ ClientIdle /\ ServerIdle /\ CleanupIdle /\ NamesIdle /\ UrlIdle

NextPath == Resolve /\ UNCHANGED <<clientVars, serverVars, cleanupVars, namesVars, urlVars>>

SpecPath == InitPath /\ [][NextPath]_vars

\* The names of a normalized absolute path.
Pieces(abs) == IF abs = <<sep>> THEN <<>> ELSE Tail(split(abs))

\* abs is ROOT or lies below it, name by name.
IsRootOrBelow(abs) ==
  /\ Len(Pieces(abs)) >= Len(Pieces(ROOT))
  /\ SubSeq(Pieces(abs), 1, Len(Pieces(ROOT))) = Pieces(ROOT)

\* abs is absolute and has no "", "." or ".." name left.
IsNormalized(abs) ==
  /\ abs # <<>> /\ abs[1] = sep
  /\ \A k \in DOMAIN Pieces(abs) : Pieces(abs)[k] \notin {<<>>, <<".">>, <<".", ".">>}

RelUpUpF   == <<".",".","/",".",".","/","f">>
RelSibling == <<".",".","/","a","b","c","/","f">>
RelSubFile == <<"s","/","s","/","f">>

\* C8: safeResolveUnderRoot either returns a normalized absolute path that is
\* ROOT or below it, or fails; it fails for every path that resolves outside
\* ROOT, among them ../../f and the sibling ../abc/f whose name starts with
\* ROOT's, and it succeeds for s/s/f with a path strictly below ROOT.
C8_ResolveStaysUnderRoot ==
  resolved # NotResolved =>
    /\ resolved.ok =>
         /\ IsNormalized(resolved.path)
         /\ IsRootOrBelow(resolved.path)
    /\ ~IsRootOrBelow(pathResolve(ROOT, rel)) => ~resolved.ok
    /\ rel \in {RelUpUpF, RelSibling} => ~resolved.ok
    /\ rel = RelSubFile =>
         /\ resolved.ok
         /\ resolved.path = ROOT \o <<sep>> \o RelSubFile

\* C8 witness: the sibling directory ../abc/f was refused.
C8_Witness ==
  /\ rel = RelSibling
  /\ resolved # NotResolved
  /\ ~resolved.ok

(***************************************************************************)
(* Server: files on disk and documents                                     *)
(***************************************************************************)
MaxNodes == 3
MaxDepth == 2

\* Query parameters of a request: none, a document in ROOT, a document in
\* the folder s, a path out of ROOT, a document that does not exist.
FileD == <<"d">>
FileE == <<"s","/","e">>
FileParams == { <<>>, FileD, FileE, <<".",".","/","x">>, <<"n">> }

\* Asset paths of GET /api/asset, relative to the document's folder.
AssetParams == { <<>>, <<"i">>, <<".",".","/",".",".","/","x">>, <<"n">> }

\* The regular files of the disk: /r/ab/d and /r/ab/s/e are documents,
\* /r/ab/a and /r/ab/s/a stylesheets, /r/ab/i and /r/ab/s/i images, and /r/x
\* is a file next to ROOT, outside it.
ExistingFiles ==
  { ROOT \o <<"/","d">>, ROOT \o <<"/","s","/","e">>,
    ROOT \o <<"/","a">>, ROOT \o <<"/","s","/","a">>,
    ROOT \o <<"/","i">>, ROOT \o <<"/","s","/","i">>,
    <<"/","r","/","x">> }

\* fileExists: fs.stat says it is a regular file.
fileExists(abs) == abs \in ExistingFiles

\* The text of a stylesheet file.
cssTextOf(abs) ==
  IF abs = ROOT \o <<"/","a">> THEN <<"B">>
  ELSE IF abs = ROOT \o <<"/","s","/","a">> THEN <<"C">>
  ELSE <<"X">>

NBSP == "nbsp"

\* An element: its tag, class, rel, href and src attributes and own text.
Shape(tag, cls, r, href, text) ==
  [tag |-> tag, cls |-> cls, rel |-> r, href |-> href, text |-> text, src |-> <<>>]

\* An <img> element with this src attribute.
ImgShape(src) == [Shape("img", "", "", <<>>, <<>>) EXCEPT !.src = src]

\* src of an image whose file is not on disk.
SrcMissing == <<"n">>

HrefLocal  == <<"a">>
HrefEscape == <<".",".","/",".",".","/","x">>
HrefMissing == <<"n">>
HrefEmpty  == <<" ">>
HrefRemote == <<"H","t","t","p",":","/","/","h","/","c">>

\* The elements documents are built from: an inline style, stylesheet links
\* (local, out of ROOT, missing, empty href, remote), a card, paragraphs,
\* an image whose file is missing.
Shapes ==
  { Shape("style", "", "", <<>>, <<"A">>),
    Shape("link", "", "stylesheet", HrefLocal, <<>>),
    Shape("link", "", "stylesheet", HrefEscape, <<>>),
    Shape("link", "", "stylesheet", HrefMissing, <<>>),
    Shape("link", "", "stylesheet", HrefEmpty, <<>>),
    Shape("link", "", "stylesheet", HrefRemote, <<>>),
    Shape("div", "card", "", <<>>, <<>>),
    Shape("p", "", "", <<>>, <<NBSP>>),
    Shape("p", "", "", <<>>, <<"t">>),
    ImgShape(SrcMissing) }

\* A node of a parsed document: an element with its identity, its depth
\* below <head> or <body> (1 = child of it) and which of the two it is in.
Node(sh, id, depth, head) ==
  [id |-> id, tag |-> sh.tag, cls |-> sh.cls, rel |-> sh.rel, href |-> sh.href,
   text |-> sh.text, src |-> sh.src, depth |-> depth, head |-> head]

\* Position of the parent of the node at position k, 0 for a child of <head>
\* or <body>.
parentPos(d, k) ==
  LET above == { j \in 1..(k - 1) : d[j].depth = d[k].depth - 1 }
  IN IF above = {} THEN 0 ELSE CHOOSE j \in above : \A i \in above : i <= j

\* The sequence is the document order of a tree as the HTML parser builds
\* it: a div holds any elements, a p holds images only, other elements hold
\* none; the nodes of <head> come first, are style or link elements and have
\* no children.
NodeFits(d, k) ==
  /\ d[k].id = k
  /\ k = 1 => d[k].depth = 1
  /\ k > 1 =>
       /\ d[k].depth <= d[k-1].depth + 1
       /\ d[k].head => d[k-1].head
  /\ d[k].depth > 1 =>
       /\ parentPos(d, k) # 0
       /\ \/ d[parentPos(d, k)].tag = "div"
          \/ d[parentPos(d, k)].tag = "p" /\ d[k].tag = "img"
  /\ d[k].head => (d[k].depth = 1 /\ d[k].tag \in {"style", "link"})

IsTree(d) == \A k \in DOMAIN d : NodeFits(d, k)

\* The trees of n nodes: those of n - 1 nodes with one more node at the end
\* that fits there.
RECURSIVE DocsOfLen(_)
DocsOfLen(n) ==
  IF n = 0 THEN { <<>> }
  ELSE UNION { { x \in { Append(d, Node(sh, n, dep, hd)) :
                          sh \in Shapes, dep \in 1..MaxDepth, hd \in BOOLEAN } :
                   NodeFits(x, n) }
               : d \in DocsOfLen(n - 1) }

\* The documents of up to maxLen elements a file can hold.
Docs(maxLen) == UNION { DocsOfLen(n) : n \in 0..maxLen }

(***************************************************************************)
(* Server: DOM operations                                                  *)
(***************************************************************************)
\* Position in d of the node with this id, 0 when it is not there.
posOf(d, id) ==
  IF \E k \in DOMAIN d : d[k].id = id
    THEN CHOOSE k \in DOMAIN d : d[k].id = id
    ELSE 0

\* Last position of the subtree that starts at position k.
RECURSIVE subtreeEnd(_, _, _)
subtreeEnd(d, k, j) ==
  IF j < Len(d) /\ d[j + 1].depth > d[k].depth /\ d[j + 1].head = d[k].head
    THEN subtreeEnd(d, k, j + 1)
    ELSE j

\* node.remove(): the node and its descendants leave the tree.
removeNode(d, id) ==
  LET k == posOf(d, id)
  IN IF k = 0 THEN d
     ELSE SubSeq(d, 1, k - 1) \o SubSeq(d, subtreeEnd(d, k, k) + 1, Len(d))

\* Positions of the child elements of the node at position k.
childPositions(d, k) ==
  { j \in (k + 1)..subtreeEnd(d, k, k) : d[j].depth = d[k].depth + 1 }

Max(S) == CHOOSE x \in S : \A y \in S : y <= x

\* 'link[rel="stylesheet"], style'
matchesCssSelector(n) ==
  \/ n.tag = "style"
  \/ n.tag = "link" /\ n.rel = "stylesheet"

\* Ids of the nodes matching the selector, in document order.
RECURSIVE selectIds(_, _)
selectIds(d, k) ==
  IF k > Len(d) THEN <<>>
  ELSE IF matchesCssSelector(d[k]) THEN <<d[k].id>> \o selectIds(d, k + 1)
  ELSE selectIds(d, k + 1)

nodeOf(d, id) == d[posOf(d, id)]

cssNodesOf_byTag(d, k) ==
  LET ids == selectIds(d, k)
  IN SelectSeq(ids, LAMBDA i : nodeOf(d, i).tag = "link")
       \o SelectSeq(ids, LAMBDA i : nodeOf(d, i).tag = "style")

\* Array.from(document.querySelectorAll('link[rel="stylesheet"], style')) for
\* the part of the document from position k on.
cssNodesOf(d, k) == selectIds(d, k)

(***************************************************************************)
(* Server: inlineCssAndImages                                              *)
(***************************************************************************)
\* href.trim() of a link node.
hrefOf(n) == trim(n.href)

keepEmptyHrefLink(d, id) == d

\* The loop's branch for a link with an empty href: node.remove(); continue.
dropEmptyHrefLink(d, id) == removeNode(d, id)

\* The CSS loop from index k on, run until its next await: it stops in front
\* of the first link with a local href (wait = TRUE, k its index) or runs to
\* the end of cssNodes (wait = FALSE).
RECURSIVE collectLoop(_, _, _, _)
collectLoop(d, css, nodes, k) ==
  IF k > Len(nodes) THEN [dom |-> d, css |-> css, k |-> k, wait |-> FALSE]
  ELSE LET n == nodeOf(d, nodes[k])
       IN IF n.tag = "style"
            THEN collectLoop(removeNode(d, n.id),
                             css \o <<"\n">> \o n.text \o <<"\n">>, nodes, k + 1)
          ELSE IF hrefOf(n) = <<>>
            THEN collectLoop(dropEmptyHrefLink(d, n.id), css, nodes, k + 1)
          ELSE IF isHttp(hrefOf(n))
            THEN collectLoop(removeNode(d, n.id), css, nodes, k + 1)
          ELSE [dom |-> d, css |-> css, k |-> k, wait |-> TRUE]

\* juice(domHtml, {extraCss, removeStyleTags: true, ...}) as far as the tree
\* goes: style elements are taken out, every other element stays.
juice(d, css) == SelectSeq(d, LAMBDA n : n.tag # "style")

\* element.innerText: the element's text where the DOM implements innerText,
\* and undefined (so '' after "|| ''") where it does not.
innerText(n, impl) == IF impl THEN n.text ELSE <<>>

\* .replace(/&nbsp;| /g, '').trim()
stripNbsp(t) == trim(SelectSeq(t, LAMBDA c : c # NBSP))

\* The body of the for loop of removeEmptyTheoremParagraphs for one card.
cleanCard(d, cardId, impl) ==
  LET k == posOf(d, cardId)
  IN IF k = 0 \/ childPositions(d, k) = {} THEN d
     ELSE LET l == Max(childPositions(d, k))
          IN IF /\ d[l].tag = "p"
                /\ stripNbsp(innerText(d[l], impl)) = <<>>
                /\ childPositions(d, l) = {}
               THEN removeNode(d, d[l].id)
               ELSE d

RECURSIVE cleanCards(_, _, _)
cleanCards(d, cards, impl) ==
  IF cards = <<>> THEN d
  ELSE cleanCards(cleanCard(d, Head(cards), impl), Tail(cards), impl)

RECURSIVE cardIds(_, _)
cardIds(d, k) ==
  IF k > Len(d) THEN <<>>
  ELSE IF d[k].cls = "card" THEN <<d[k].id>> \o cardIds(d, k + 1)
  ELSE cardIds(d, k + 1)

\* removeEmptyTheoremParagraphs: querySelectorAll(".card"), then the loop.
removeEmptyTheoremParagraphs(d, impl) == cleanCards(d, cardIds(d, 1), impl)

\* body.innerHTML: the elements below <body>.
bodyInnerHTML(d) == SelectSeq(d, LAMBDA n : ~n.head)

\* const imgs = []; the list of the document's <img> elements is commented
\* out in the source, so the image loop has nothing to go through.
imgsOf(d) == <<>>

DataUrl == <<"d","a","t","a",":","i">>

\* The image loop over the given list of node ids: an empty or data: src is
\* skipped, a remote src and a missing file each push a warning, and the src
\* of an image whose file is there becomes a data URL.
RECURSIVE imageLoop(_, _, _, _)
imageLoop(d, list, dir, warnings) ==
  IF list = <<>> THEN [dom |-> d, warnings |-> warnings]
  ELSE LET k   == posOf(d, Head(list))
           src == trim(d[k].src)
       IN IF src = <<>> \/ startsWith(src, <<"d","a","t","a",":">>)
            THEN imageLoop(d, Tail(list), dir, warnings)
          ELSE IF isHttp(src)
            THEN imageLoop(d, Tail(list), dir,
                           Append(warnings, [kind |-> "remote", src |-> src]))
          ELSE IF ~fileExists(pathResolve(dir, src))
            THEN imageLoop(d, Tail(list), dir,
                           Append(warnings, [kind |-> "notfound", src |-> src]))
          ELSE imageLoop([d EXCEPT ![k].src = DataUrl], Tail(list), dir, warnings)

\* inlineCssAndImages after the CSS loop: the image loop, then serialize,
\* juice, parse again, clean up, and return the body's markup and the
\* warnings.
transformResult(d, css, impl) ==
  LET il == imageLoop(d, imgsOf(d), htmlDir, <<>>)
  IN [status   |-> 200,
      bodyHtml |-> bodyInnerHTML(removeEmptyTheoremParagraphs(juice(il.dom, css), impl)),
      warnings |-> il.warnings]

\* res.status(code) with an error message.
ErrorResp(code) == [status |-> code, bodyHtml |-> <<>>, warnings |-> <<>>]

\* The CSS loop goes on from index k: to its next await, or to the end of
\* inlineCssAndImages and the response.
ContinueCollect(d, css, k) ==
  LET r == collectLoop(d, css, cssNodes', k)
  IN /\ dom' = r.dom
     /\ combinedCss' = r.css
     /\ cssIdx' = r.k
     /\ IF r.wait
          THEN /\ spc' = "stat"
               /\ resp' = resp
          ELSE /\ spc' = "done"
               /\ \E impl \in BOOLEAN : resp' = transformResult(r.dom, r.css, impl)

\* GET /api/content up to the await of readFileText(htmlAbs).
ContentRequest ==
  /\ spc = "idle"
  /\ \E file \in FileParams :
       LET r == safeResolveUnderRoot(file)
       IN IF file = <<>>
            THEN /\ spc' = "done"
                 /\ resp' = ErrorResp(400)
                 /\ sreq' = [kind |-> "content", file |-> file, path |-> <<>>, abs |-> <<>>]
                 /\ UNCHANGED <<htmlDir, reads>>
          ELSE IF ~r.ok
            THEN /\ spc' = "done"
                 /\ resp' = ErrorResp(400)
                 /\ sreq' = [kind |-> "content", file |-> file, path |-> <<>>, abs |-> <<>>]
                 /\ UNCHANGED <<htmlDir, reads>>
          ELSE /\ spc' = "readDoc"
               /\ sreq' = [kind |-> "content", file |-> file, path |-> <<>>, abs |-> r.path]
               /\ htmlDir' = pathDirname(r.path)
               /\ reads' = reads \cup {r.path}
               /\ UNCHANGED resp
  /\ UNCHANGED <<srcDoc, dom, cssNodes, cssIdx, combinedCss>>

\* readFileText(htmlAbs) settles: the throw for a missing file, else the
\* document is parsed and the CSS loop starts.
DocRead ==
  /\ spc = "readDoc"
  /\ IF ~fileExists(sreq.abs)
       THEN /\ spc' = "done"
            /\ resp' = ErrorResp(400)
            /\ UNCHANGED <<srcDoc, dom, cssNodes, cssIdx, combinedCss>>
       ELSE \E d \in Docs(MaxNodes) :
              /\ srcDoc' = d
              /\ cssNodes' = cssNodesOf(d, 1)
              /\ ContinueCollect(d, <<>>, 1)
  /\ UNCHANGED <<sreq, htmlDir, reads>>

\* The path of the stylesheet the loop is at: path.resolve(htmlDir, href).
cssAbs == pathResolve(htmlDir, hrefOf(nodeOf(dom, cssNodes[cssIdx])))

\* fileExists(cssAbs) settles: readFileText(cssAbs) is called when the file
\* is there; otherwise the node is removed and the loop goes on.
StatDone ==
  /\ spc = "stat"
  /\ IF fileExists(cssAbs)
       THEN /\ reads' = reads \cup {cssAbs}
            /\ spc' = "readCss"
            /\ UNCHANGED <<dom, cssNodes, cssIdx, combinedCss, resp>>
       ELSE /\ cssNodes' = cssNodes
            /\ ContinueCollect(removeNode(dom, cssNodes[cssIdx]), combinedCss, cssIdx + 1)
            /\ UNCHANGED reads
  /\ UNCHANGED <<sreq, htmlDir, srcDoc>>

\* readFileText(cssAbs) settles: its text is appended, the node removed and
\* the loop goes on; a read error ends the request with the 400 answer.
CssRead ==
  /\ spc = "readCss"
  /\ \E readOk \in BOOLEAN :
       IF readOk
         THEN /\ cssNodes' = cssNodes
              /\ ContinueCollect(removeNode(dom, cssNodes[cssIdx]),
                                 combinedCss \o <<"\n">> \o cssTextOf(cssAbs) \o <<"\n">>,
                                 cssIdx + 1)
         ELSE /\ spc' = "done"
              /\ resp' = ErrorResp(400)
              /\ UNCHANGED <<dom, cssNodes, cssIdx, combinedCss>>
  /\ UNCHANGED <<sreq, htmlDir, srcDoc, reads>>

(***************************************************************************)
(* Server: GET /api/asset                                                  *)
(***************************************************************************)
\* The handler up to the await of fs.readFile(assetAbs).
AssetRequest ==
  /\ spc = "idle"
  /\ \E html \in FileParams, ap \in AssetParams :
       LET r == safeResolveUnderRoot(html)
           dir == pathDirname(r.path)
           assetAbs == pathResolve(dir, ap)
           rq == [kind |-> "asset", file |-> html, path |-> ap, abs |-> <<>>]
       IN IF html = <<>> \/ ap = <<>>
            THEN /\ spc' = "done" /\ resp' = ErrorResp(400) /\ sreq' = rq
                 /\ UNCHANGED <<htmlDir, reads>>
          ELSE IF ~r.ok
            THEN /\ spc' = "done" /\ resp' = ErrorResp(404) /\ sreq' = rq
                 /\ UNCHANGED <<htmlDir, reads>>
          ELSE IF ~underRoot(assetAbs)
            THEN /\ spc' = "done" /\ resp' = ErrorResp(400) /\ sreq' = rq
                 /\ htmlDir' = dir
                 /\ UNCHANGED reads
          ELSE /\ spc' = "assetRead"
               /\ sreq' = [rq EXCEPT !.abs = assetAbs]
               /\ htmlDir' = dir
               /\ reads' = reads \cup {assetAbs}
               /\ UNCHANGED resp
  /\ UNCHANGED <<srcDoc, dom, cssNodes, cssIdx, combinedCss>>

\* fs.readFile(assetAbs) settles: the bytes are sent, or the catch answers 404.
AssetRead ==
  /\ spc = "assetRead"
  /\ spc' = "done"
  /\ resp' = IF fileExists(sreq.abs)
               THEN [status |-> 200, bodyHtml |-> <<>>, warnings |-> <<>>]
               ELSE ErrorResp(404)
  /\ UNCHANGED <<sreq, htmlDir, srcDoc, dom, cssNodes, cssIdx, combinedCss, reads>>

ServerInit ==
  /\ spc = "idle"
  /\ sreq = NoReq
  /\ htmlDir = <<>>
  /\ srcDoc = <<>>
  /\ dom = <<>>
  /\ cssNodes = <<>>
  /\ cssIdx = 0
  /\ combinedCss = <<>>
  /\ reads = {}
  /\ resp = NoResp

InitServer == ServerInit /\ ClientIdle /\ PathIdle /\ CleanupIdle /\ NamesIdle /\ UrlIdle

NextServer ==
  \/ ContentRequest /\ UNCHANGED <<clientVars, pathVars, cleanupVars, namesVars, urlVars>>
  \/ DocRead /\ UNCHANGED <<clientVars, pathVars, cleanupVars, namesVars, urlVars>>
  \/ StatDone /\ UNCHANGED <<clientVars, pathVars, cleanupVars, namesVars, urlVars>>
  \/ CssRead /\ UNCHANGED <<clientVars, pathVars, cleanupVars, namesVars, urlVars>>
  \/ AssetRequest /\ UNCHANGED <<clientVars, pathVars, cleanupVars, namesVars, urlVars>>
  \/ AssetRead /\ UNCHANGED <<clientVars, pathVars, cleanupVars, namesVars, urlVars>>

SpecServer == InitServer /\ [][NextServer]_vars

(***************************************************************************)
(* Properties of the server                                                *)
(***************************************************************************)

\* C9: every path the server hands to fs.readFile while it serves a
\* transform or asset request is ROOT or below it: the document, each local
\* stylesheet and each asset.
C9_ReadsStayUnderRoot == \A f \in reads : IsRootOrBelow(f)

\* The element is a style element or a link rel=stylesheet element.
IsStylesheetElement(n) == n.tag = "style" \/ (n.tag = "link" /\ n.rel = "stylesheet")

\* C10: the fragment transform returns holds no style element and no link
\* rel=stylesheet element, whatever stylesheet nodes the document has and
\* wherever they are in the tree.
C10_NoStylesheetElementsLeft ==
  (sreq.kind = "content" /\ resp.status = 200) =>
     \A k \in DOMAIN resp.bodyHtml : ~IsStylesheetElement(resp.bodyHtml[k])

\* C10 witness: a document with a style element inside a div and a link with
\* an empty href in the body was transformed, and the div is still there.
C10_Witness ==
  /\ sreq.kind = "content"
  /\ resp.status = 200
  /\ \E a, b \in DOMAIN srcDoc :
       /\ srcDoc[a].tag = "style" /\ srcDoc[a].depth = 2
       /\ srcDoc[b].tag = "link" /\ srcDoc[b].href = HrefEmpty /\ ~srcDoc[b].head
  /\ \E k \in DOMAIN resp.bodyHtml : resp.bodyHtml[k].tag = "div"

\* What one stylesheet node of a document in folder dir adds to the combined
\* CSS: a style element its text, a link to a local file that exists the
\* file's text, any other link nothing.
Contribution(n, dir) ==
  IF n.tag = "style" THEN <<"\n">> \o n.text \o <<"\n">>
  ELSE IF hrefOf(n) = <<>> \/ isHttp(hrefOf(n)) THEN <<>>
  ELSE IF pathResolve(dir, hrefOf(n)) \in ExistingFiles
    THEN <<"\n">> \o cssTextOf(pathResolve(dir, hrefOf(n))) \o <<"\n">>
  ELSE <<>>

\* The contributions of the first n stylesheet nodes met from position k on,
\* in the order the nodes appear in the document.
RECURSIVE CssInDocumentOrder(_, _, _, _)
CssInDocumentOrder(d, k, n, dir) ==
  IF k > Len(d) \/ n = 0 THEN <<>>
  ELSE IF IsStylesheetElement(d[k])
    THEN Contribution(d[k], dir) \o CssInDocumentOrder(d, k + 1, n - 1, dir)
  ELSE CssInDocumentOrder(d, k + 1, n, dir)

StylesheetCount(d) == Cardinality({ k \in DOMAIN d : IsStylesheetElement(d[k]) })

\* C11: the combined CSS is, at every point of the collection, the
\* concatenation of the contributions of the stylesheet nodes handled so far
\* taken in document order, and when transform answers it is that of all the
\* document's stylesheet nodes: an earlier node's contribution precedes every
\* later node's, whatever the tags; remote links, links with an empty href
\* and links to missing files add nothing.
C11_CssInDocumentOrder ==
  sreq.kind = "content" =>
    /\ spc \in {"stat", "readCss"} =>
         combinedCss = CssInDocumentOrder(srcDoc, 1, cssIdx - 1, htmlDir)
    /\ resp.status = 200 =>
         combinedCss = CssInDocumentOrder(srcDoc, 1, StylesheetCount(srcDoc), htmlDir)

\* C11 witness: a document with a local link, then a style element, then a
\* local link again was transformed: file text, style text, file text.
C11_Witness ==
  /\ sreq.kind = "content"
  /\ resp.status = 200
  /\ Len(srcDoc) = 3
  /\ srcDoc[1].tag = "link" /\ srcDoc[1].href = HrefLocal
  /\ srcDoc[2].tag = "style"
  /\ srcDoc[3].tag = "link" /\ srcDoc[3].href = HrefLocal
  /\ combinedCss = <<"\n", "B", "\n", "\n", "A", "\n", "\n", "B", "\n">>

\* The node refers to a local file (not empty, not remote, not embedded)
\* that is not on disk: a stylesheet link by its href, an image by its src.
MissingLocalCss(n, dir) ==
  /\ n.tag = "link" /\ n.rel = "stylesheet"
  /\ hrefOf(n) # <<>> /\ ~isHttp(hrefOf(n))
  /\ pathResolve(dir, hrefOf(n)) \notin ExistingFiles

MissingLocalImage(n, dir) ==
  /\ n.tag = "img"
  /\ isLocalish(trim(n.src))
  /\ pathResolve(dir, trim(n.src)) \notin ExistingFiles

\* The warnings that mention this path.
WarningsAbout(ws, path) == { j \in DOMAIN ws : ws[j].src = path }

\* C12 as claimed: a document that refers to a missing local stylesheet or
\* image is still transformed, the answer's warnings list has a Warning for
\* each such file, and a missing local image has exactly one Warning and
\* keeps its src in the fragment.
C12_MissingFilesWarn ==
  (sreq.kind = "content" /\ spc = "done" /\ resp.status = 200) =>
     \A k \in DOMAIN srcDoc :
        /\ MissingLocalCss(srcDoc[k], htmlDir) =>
             WarningsAbout(resp.warnings, hrefOf(srcDoc[k])) # {}
        /\ MissingLocalImage(srcDoc[k], htmlDir) =>
             /\ Cardinality(WarningsAbout(resp.warnings, trim(srcDoc[k].src))) = 1
             /\ \A j \in DOMAIN resp.bodyHtml :
                  resp.bodyHtml[j].id = srcDoc[k].id =>
                    resp.bodyHtml[j].src = srcDoc[k].src

(***************************************************************************)
(* Structural cleanup on its own: removeEmptyTheoremParagraphs run on a    *)
(* tree, and run again on what it left                                     *)
(***************************************************************************)
MaxTreeNodes == 4
MaxTreeDepth == 3
MaxRuns == 2

\* The elements of the trees: a card, a plain div, a paragraph of
\* non-breaking space and blank, a paragraph of text, an image.
TreeShapes ==
  { Shape("div", "card", "", <<>>, <<>>),
    Shape("div", "", "", <<>>, <<>>),
    Shape("p", "", "", <<>>, <<NBSP, " ">>),
    Shape("p", "", "", <<>>, <<"t">>),
    ImgShape(SrcMissing) }

\* The body trees of n nodes: those of n - 1 nodes with one more node that
\* fits there.
RECURSIVE TreesOfLen(_)
TreesOfLen(n) ==
  IF n = 0 THEN { <<>> }
  ELSE UNION { { x \in { Append(d, Node(sh, n, dep, FALSE)) :
                          sh \in TreeShapes, dep \in 1..MaxTreeDepth } :
                   NodeFits(x, n) }
               : d \in TreesOfLen(n - 1) }

\* The body trees of up to maxLen elements.
Trees(maxLen) == UNION { TreesOfLen(n) : n \in 0..maxLen }

CleanupInit ==
  /\ tree \in Trees(MaxTreeNodes)
  /\ hasInnerText \in BOOLEAN
  /\ runs = <<>>

\* One run of removeEmptyTheoremParagraphs, on the tree the run before left.
Cleanup ==
  /\ Len(runs) < MaxRuns
  /\ runs' = Append(runs,
       removeEmptyTheoremParagraphs(IF runs = <<>> THEN tree ELSE runs[Len(runs)],
                                    hasInnerText))
  /\ UNCHANGED <<tree, hasInnerText>>

InitCleanup == CleanupInit /\ ClientIdle /\ PathIdle /\ ServerIdle /\ NamesIdle /\ UrlIdle

NextCleanup == Cleanup /\ UNCHANGED <<clientVars, pathVars, serverVars, namesVars, urlVars>>

SpecCleanup == InitCleanup /\ [][NextCleanup]_vars

\* C13 as claimed: a second run of the cleanup changes nothing.
C13_CleanupIdempotent == Len(runs) = 2 => runs[2] = runs[1]

\* The paragraph at position l has no child element and no text but
\* non-breaking spaces and whitespace.
IsEmptyParagraph(t, l) ==
  /\ t[l].tag = "p"
  /\ \A j \in DOMAIN t : parentPos(t, j) = l => j <= l
  /\ \A c \in Range(t[l].text) : c = NBSP \/ isSpace(c)

\* Position of the last child element of the node at position k, 0 if none.
LastChild(t, k) ==
  LET kids == { j \in DOMAIN t : j > k /\ parentPos(t, j) = k }
  IN IF kids = {} THEN 0 ELSE CHOOSE j \in kids : \A i \in kids : i <= j

\* Ids of the trailing empty paragraphs of the cards of t.
TrailingEmptyParagraphs(t) ==
  { t[LastChild(t, k)].id :
      k \in { j \in DOMAIN t : t[j].cls = "card" /\ LastChild(t, j) # 0
                                /\ IsEmptyParagraph(t, LastChild(t, j)) } }

\* C14 as claimed: a run of the cleanup removes, from each card, its last
\* child element exactly when that is a paragraph without child elements
\* and without text other than non-breaking spaces and whitespace, and
\* removes nothing else.
C14_OnlyTrailingEmptyParagraph ==
  \A i \in DOMAIN runs :
    LET before == IF i = 1 THEN tree ELSE runs[i - 1]
    IN runs[i] = SelectSeq(before,
                   LAMBDA n : n.id \notin TrailingEmptyParagraphs(before))

(***************************************************************************)
(* Upload filenames: what the for loop of uploadImagesViaCanvasAPI derives *)
(* for the candidates of one run, with the clock Date.now() reads          *)
(***************************************************************************)
MaxClock == 2

\* The last piece of the text split at character c: s.split(c).pop().
RECURSIVE lastPiece(_, _)
lastPiece(s, c) ==
  IF s = <<>> THEN <<>>
  ELSE IF s[Len(s)] = c THEN <<>>
  ELSE Append(lastPiece(SubSeq(s, 1, Len(s) - 1), c), s[Len(s)])

\* .replace(/\.[^.]+$/, ''): a last dot that has at least one character
\* after it is cut off with what follows it.
stripExtension(b) ==
  LET ext == lastPiece(b, ".")
  IN IF ext # <<>> /\ Len(ext) < Len(b)
       THEN SubSeq(b, 1, Len(b) - Len(ext) - 1)
       ELSE b

DigitChars == <<"0", "1", "2", "3", "4", "5", "6", "7", "8", "9">>

\* String(n) of a non-negative integer.
RECURSIVE numberToString(_)
numberToString(n) ==
  IF n < 10 THEN <<DigitChars[n + 1]>>
  ELSE Append(numberToString(n \div 10), DigitChars[(n % 10) + 1])

orElse(v, dflt) == IF v = <<>> THEN dflt ELSE v

\* (src.split('/').pop() || 'image').replace(/\.[^.]+$/, '') + '_' +
\* Date.now() + '.' + (src.split('.').pop() || 'png')
filename(src, now) ==
  stripExtension(orElse(lastPiece(src, "/"), <<"i","m","a","g","e">>))
    \o <<"_">> \o numberToString(now) \o <<".">>
    \o orElse(lastPiece(src, "."), <<"p","n","g">>)

\* No filename: the asset fetch of the image failed before line 412.
NoName == <<>>

\* Candidate srcs of a run: two images of the same basename in different
\* folders, and two others.
NameSrcs == { SrcA, SrcB, <<"b",".","p","n","g">>, <<"d","/","c">> }

NamesInit ==
  /\ srcs \in UNION { [1..n -> NameSrcs] : n \in 0..MaxImgs }
  /\ clock = 0
  /\ names = <<>>

\* Time passes while the loop awaits a response.
Tick ==
  /\ clock < MaxClock
  /\ clock' = clock + 1
  /\ UNCHANGED <<srcs, names>>

\* The loop is at the next candidate, its asset fetch succeeded, and the
\* filename is derived from its src and Date.now().
DeriveName ==
  /\ Len(names) < Len(srcs)
  /\ names' = Append(names, filename(srcs[Len(names) + 1], clock))
  /\ UNCHANGED <<srcs, clock>>

\* The asset fetch of the next candidate failed: no filename is derived.
SkipName ==
  /\ Len(names) < Len(srcs)
  /\ names' = Append(names, NoName)
  /\ UNCHANGED <<srcs, clock>>

InitNames == NamesInit /\ ClientIdle /\ PathIdle /\ ServerIdle /\ CleanupIdle /\ UrlIdle

NextNames ==
  \/ Tick /\ UNCHANGED <<clientVars, pathVars, serverVars, cleanupVars, urlVars>>
  \/ DeriveName /\ UNCHANGED <<clientVars, pathVars, serverVars, cleanupVars, urlVars>>
  \/ SkipName /\ UNCHANGED <<clientVars, pathVars, serverVars, cleanupVars, urlVars>>

SpecNames == InitNames /\ [][NextNames]_vars

\* C15 as claimed: the filenames derived for two distinct candidate images
\* of one run differ, whatever their srcs and whatever time passed between
\* the two derivations.
C15_FilenamesDistinct ==
  \A i, j \in DOMAIN names :
    (i < j /\ names[i] # NoName /\ names[j] # NoName) => names[i] # names[j]

(***************************************************************************)
(* URL extraction on its own: pickUrl applied to a final file record       *)
(***************************************************************************)
\* What a field of a final file record can hold: nothing (the field is not
\* in the record), the empty string, or a URL.
FieldValues == {Absent, <<>>} \cup HostedUrls

AllFileJsons ==
  { FileJson(u, d, p) : u \in FieldValues, d \in FieldValues, p \in FieldValues }

UrlInit ==
  /\ fileJson \in AllFileJsons
  /\ pickedUrl = NotPicked

\* One call of pickUrl(fileJson).
PickUrl ==
  /\ pickedUrl = NotPicked
  /\ pickedUrl' = pickUrl(fileJson)
  /\ UNCHANGED fileJson

InitUrl == UrlInit /\ ClientIdle /\ PathIdle /\ ServerIdle /\ CleanupIdle /\ NamesIdle

NextUrl == PickUrl /\ UNCHANGED <<clientVars, pathVars, serverVars, cleanupVars, namesVars>>

SpecUrl == InitUrl /\ [][NextUrl]_vars

\* The record's candidate fields in their priority order.
PriorityFields(rec) == <<rec.url, rec.download_url, rec.preview_url>>

\* The value of the first field in priority order that meets the test, NoUrl
\* when none does.
FirstField(rec, Test(_)) ==
  LET f  == PriorityFields(rec)
      ok == { i \in DOMAIN f : Test(f[i]) }
  IN IF ok = {} THEN NoUrl
     ELSE f[CHOOSE i \in ok : \A j \in ok : i <= j]

IsPresent(v) == v # Absent

IsNonEmpty(v) == v \in HostedUrls

\* C16 as claimed: pickUrl returns the value of the first field that is
\* present in the record, in the order url, download_url, preview_url, and
\* no URL exactly when none of the three is present.
C16_FirstPresentField ==
  pickedUrl # NotPicked => pickedUrl = FirstField(fileJson, IsPresent)

\* C16 amended: pickUrl returns the value of the first field, in the order
\* url, download_url, preview_url, whose value is not empty, and no URL
\* exactly when none of the three has a non-empty value; a field that is in
\* the record with an empty value is passed over like a missing one.
C16_FirstNonEmptyField ==
  pickedUrl # NotPicked =>
    /\ pickedUrl = FirstField(fileJson, IsNonEmpty)
    /\ pickedUrl = NoUrl <=>
         \A i \in DOMAIN PriorityFields(fileJson) :
            ~IsNonEmpty(PriorityFields(fileJson)[i])

\* C16 witness: url is in the record but empty, download_url and preview_url
\* hold URLs, and pickUrl returned the download URL.
C16_Witness ==
  /\ fileJson = FileJson(<<>>, HostedD, HostedP)
  /\ pickedUrl = HostedD

(***************************************************************************)
(* Properties of the upload protocol                                       *)
(***************************************************************************)
\* The phases of an asset's log, in protocol order.
PhaseOrder == <<"asset", "preflight", "binary", "finalize">>

PhaseNo(k) == CHOOSE i \in DOMAIN PhaseOrder : PhaseOrder[i] = k

\* The response ends the asset in failure: a rejected fetch in any phase, a
\* non-success status of the asset fetch, the preflight or the finalize, a
\* grant without upload parameters, a non-success binary upload without a
\* Location header, or a final record without a URL.
IsFailure(e) ==
  /\ e.t = "resp"
  /\ \/ e.st = "neterr"
     \/ e.k \in {"asset", "preflight", "finalize"} /\ e.st # "ok"
     \/ e.k = "binary" /\ e.st # "ok" /\ ~e.loc
     \/ e.k = "finalize" /\ ~HasUsableUrl(e.rec)
     \/ e.k = "binary" /\ ~e.loc /\ ~HasUsableUrl(e.rec)

\* The log follows the protocol: requests and responses alternate, the
\* phases come in order and none is repeated, each request but the first
\* directly follows the response of the phase before it, the binary upload
\* follows a successful preflight, and nothing follows a failure.
FollowsProtocol(l) ==
  \A j \in DOMAIN l :
    /\ l[j].t = (IF j % 2 = 1 THEN "req" ELSE "resp")
    /\ l[j].k = PhaseOrder[(j + 1) \div 2]
    /\ l[j].img = l[1].img
    /\ (l[j].t = "req" /\ l[j].k = "preflight") =>
         (l[j-1].k = "asset" /\ l[j-1].st = "ok")
    /\ (l[j].t = "req" /\ l[j].k = "binary") =>
         (l[j-1].k = "preflight" /\ l[j-1].st = "ok")
    /\ (l[j].t = "req" /\ l[j].k = "finalize") =>
         (l[j-1].k = "binary" /\ l[j-1].t = "resp" /\ l[j-1].loc)
    /\ IsFailure(l[j]) => j = Len(l)

\* C17: each asset goes through preflight, binary upload, optional
\* finalize: the binary upload is requested only after the asset's
\* preflight succeeded, finalize only after its binary-upload response
\* came in, no phase is repeated, and once the asset has failed (or is
\* done) no further request is issued for it.
C17_PhasesInOrderFailedTerminal ==
  /\ Len(log) <= 2 * Len(PhaseOrder) /\ FollowsProtocol(log)
  /\ Len(last) <= 2 * Len(PhaseOrder) /\ FollowsProtocol(last)
  /\ log # <<>> =>
       /\ inflight = {Req(log[Len(log)].k, LogImg(log))}
       /\ log[Len(log)].t = "req"
  /\ last # <<>> =>
       /\ last[Len(last)].t = "resp"
       /\ result[LogImg(last)] = (IF IsFailure(last[Len(last)]) THEN "failed" ELSE "ok")
       /\ \A r \in inflight : r.img # LogImg(last)
  /\ \A r \in inflight : r.img # 0 => result[r.img] = "none"

\* C17 witness: the first asset failed at the binary upload (non-success,
\* no Location header) after a successful preflight; no finalize request was
\* issued for it and the loop is at the second asset.
C17_Witness ==
  /\ Len(last) = 6
  /\ last[4].k = "preflight" /\ last[4].st = "ok"
  /\ last[6].k = "binary" /\ last[6].st = "bad" /\ ~last[6].loc
  /\ result[LogImg(last)] = "failed"
  /\ pc = "upload" /\ idx = 2
  /\ inflight = {Req("asset", imgs[2])}

\* Positions in the log of the answers of the binary upload (a rejected
\* fetch gives no answer).
BinaryAnswers(l) ==
  { j \in DOMAIN l : l[j].t = "resp" /\ l[j].k = "binary" /\ l[j].st # "neterr" }

FinalizeRequests(l) == { j \in DOMAIN l : l[j].t = "req" /\ l[j].k = "finalize" }

\* In the log a finalize request follows the binary-upload answer exactly
\* when that answer has a Location header, goes to the header's value, and
\* is the only one.
FinalizeIffLocation(l) ==
  /\ \A j \in BinaryAnswers(l) :
       IF l[j].loc
         THEN /\ l[j].to \in Locations
              /\ j + 1 \in FinalizeRequests(l)
              /\ l[j + 1].to = l[j].to
         ELSE FinalizeRequests(l) = {}
  /\ \A j \in FinalizeRequests(l) : j - 1 \in BinaryAnswers(l) /\ l[j - 1].loc
  /\ Cardinality(FinalizeRequests(l)) <= 1

\* C18: a finalize request is issued exactly when the binary-upload answer
\* carries a Location header, to that location and once; the final record,
\* from which the hosted URL is taken, is the finalize answer's body when
\* the header is there and the binary-upload answer's body when it is not.
C18_FinalizeIffLocation ==
  /\ FinalizeIffLocation(log)
  /\ FinalizeIffLocation(last)
  /\ (last # <<>> /\ result[LogImg(last)] = "ok") =>
       LET e == last[Len(last)]
       IN /\ e.t = "resp"
          /\ e.k = (IF \E j \in BinaryAnswers(last) : last[j].loc
                      THEN "finalize" ELSE "binary")
          /\ docSrc[LogImg(last)] = FirstField(e.rec, IsNonEmpty)

\* C18 witness: the binary-upload answer had the Location header LocB, the
\* finalize request went to LocB, and the URL of the finalize answer's
\* record is the image's src.
C18_Witness ==
  /\ Len(last) = 8
  /\ last[6].loc /\ last[6].to = LocB
  /\ last[7].k = "finalize" /\ last[7].to = LocB
  /\ last[8].rec = FileJson(<<>>, Absent, HostedP)
  /\ result[LogImg(last)] = "ok"
  /\ docSrc[LogImg(last)] = HostedP

\* Candidate images that have their terminal result.
Processed == { k \in Range(imgs) : result[k] # "none" }

\* Candidate images whose src is now a hosted URL.
Rewritten == { k \in Range(imgs) : docSrc[k] \in HostedUrls /\ docSrc[k] # content[k] }

\* The counters of the run at this point.
CountersConsistent ==
  /\ \A k \in DOMAIN result :
       /\ result[k] \in {"none", "ok", "failed"}
       /\ result[k] = "ok" <=> k \in Rewritten
       /\ result[k] = "failed" => docSrc[k] = content[k]
       /\ result[k] # "none" => k \in Range(imgs)
  /\ converted = Cardinality(Rewritten)
  /\ converted <= Cardinality(Processed)
  /\ Cardinality(Processed) <= Len(imgs)
  /\ upState = "running" => Cardinality(Processed) = idx - 1
  /\ upState = "returned" =>
       /\ Cardinality(Processed) = Len(imgs)
       /\ ret.converted = converted
       /\ ret.total = Len(imgs)

\* A terminal result, once set, stays, and so does the src that goes with
\* it; converted never goes down.
ResultsStay ==
  /\ \A k \in DOMAIN result :
       result[k] # "none" => (result'[k] = result[k] /\ docSrc'[k] = docSrc[k])
  /\ converted' >= converted

\* C19: throughout a run each candidate image has at most one terminal
\* result, a hosted URL or a failure, which never changes once set;
\* converted is the number of candidates whose src was rewritten to a hosted
\* URL, and converted <= images processed so far <= total.
C19_OneTerminalResultAndCounts == []CountersConsistent /\ [][ResultsStay]_vars

\* C19 witness: the loop is at the third of three candidates, the first was
\* rewritten and the second failed: converted = 1, processed = 2, total = 3.
C19_Witness ==
  /\ upState = "running"
  /\ Len(imgs) = 3 /\ idx = 3
  /\ result[imgs[1]] = "ok" /\ result[imgs[2]] = "failed" /\ result[imgs[3]] = "none"
  /\ converted = 1
  /\ Cardinality(Processed) = 2

\* The run is over.
Terminated == pc \in {"done", "failed"}

\* The run completed: the content was handed to the editor once, and the one
\* message reports completion with the converted and total counts.
Completed ==
  /\ pc = "done"
  /\ Len(edCalls) = 1
  /\ upState = "returned"
  /\ alerts = <<[kind |-> "complete", converted |-> ret.converted, total |-> ret.total]>>

\* The run failed outward: one failure message, nothing handed to the editor.
FailedOutward ==
  /\ pc = "failed"
  /\ edCalls = <<>>
  /\ Len(alerts) = 1 /\ alerts[1].kind = "failed"

\* C20: when every call the run awaits settles, the run ends, and it ends
\* in exactly one of two ways, for good: completed (content handed to the
\* editor, failed images showing only in converted/total), or failed outward
\* at the first fatal error with one message and nothing handed over; until
\* then nothing is shown and nothing is handed over, and after it nothing is
\* outstanding.
C20_RunTerminatesOneOfTwoWays ==
  /\ <>[]Terminated
  /\ [](Terminated => (Completed \/ FailedOutward) /\ inflight = {})
  /\ [](~Terminated => (alerts = <<>> /\ edCalls = <<>>))

\* C20 witness: a run over two candidates completed with one of them failed;
\* the message says 1/2.
C20_Witness ==
  /\ Completed
  /\ Len(imgs) = 2
  /\ alerts[1].converted = 1 /\ alerts[1].total = 2
  /\ inflight = {}

====
